---- MODULE Spec2Model ----
(***************************************************************************)
(* Model of src/main.py: the order pricing engine (discount and delivery   *)
(* strategies, the Order aggregate, the ShoppingCart and the               *)
(* OrderPlacementFacade).                                                  *)
(*                                                                         *)
(* Money.  The program computes with Python floats.  The model computes    *)
(* with exact decimals: an amount is an integer count of hundredths of     *)
(* the currency unit.  Every price, cap and subtotal the model draws is a  *)
(* whole number of currency units and every percentage a whole number, so  *)
(* that amount * percentage / 100 is a whole number of hundredths and no   *)
(* rounding is involved.  Float rounding is not modelled; every amount     *)
(* the claims name (85.00, 40.00, 1200.00, 100.00, 400.00, 150.00 and      *)
(* their sums) is exactly representable as a float as well.                *)
(*                                                                         *)
(* Identity.  Product objects hash by identity, so a product is modelled   *)
(* by its name; uuid fields are left out (nothing reads them but the       *)
(* summary text).  datetime.now() is left out of DeliveryInfo: only the    *)
(* cost and the transit duration are kept.                                 *)
(***************************************************************************)
EXTENDS Integers, Sequences, FiniteSets

VARIABLES
    prices,        \* Product.price of every product (mutable attribute)
    cart,          \* ShoppingCart.items: insertion-ordered dict, as a sequence of entries
    order,         \* the Order under consideration, a record of its fields
    last,          \* the last call made and its outcome (return value / raised)
    total_called   \* whether calculate_total has been called on `order` (raised or not)

vars == <<prices, cart, order, last, total_called>>

----------------------------------------------------------------------------
(* Bounds of the model                                                     *)

MaxQty == 2           \* quantities passed to add_item / add_item_from_cart: 1..MaxQty
MaxOrderUnits == 3    \* units (sum of quantities) added to an order by add_item_from_cart
MaxCartUnits == 4     \* units (sum of quantities) held by the cart

----------------------------------------------------------------------------
(* Values                                                                  *)

\* An amount of r whole currency units, in hundredths.
Money(r) == r * 100

Products == {"milk", "bread", "heavy_item"}

\* src/main.py:249-251, the catalogue of the demo driver.
CataloguePrice(p) ==
    CASE p = "milk" -> Money(85)
      [] p = "bread" -> Money(40)
      [] p = "heavy_item" -> Money(1200)

\* Prices a product may be re-priced to: a marked-down price, or back to its
\* catalogue price.
PriceSet(p) == {Money(40), CataloguePrice(p)}

Qtys == 1..MaxQty

\* OrderStatus
PENDING == "Pending"
PAID == "Paid"
SHIPPED == "Shipped"
DELIVERED == "Delivered"
OrderStatus == {PENDING, PAID, SHIPPED, DELIVERED}

----------------------------------------------------------------------------
(* Discount strategies                                                     *)

\* NoDiscount()
NoDiscount == [kind |-> "NoDiscount", percentage |-> 0, fixed_amount |-> 0]

\* PercentageDiscountStrategy(percentage): stores percentage / 100.0.  The
\* stored fraction is kept as its count of hundredths.
PercentageDiscountStrategy(percentage) ==
    [kind |-> "Percentage", percentage |-> percentage, fixed_amount |-> 0]

\* FixedAmountDiscountStrategy(fixed_amount)
FixedAmountDiscountStrategy(fixed_amount) ==
    [kind |-> "Fixed", percentage |-> 0, fixed_amount |-> fixed_amount]

Min(a, b) == IF a <= b THEN a ELSE b

\* A fixed-amount strategy that forgets the cap by the subtotal.
apply_discount_uncapped(strategy, amount) ==
    CASE strategy.kind = "NoDiscount" -> amount
      [] strategy.kind = "Percentage" -> (amount * strategy.percentage) \div 100
      [] strategy.kind = "Fixed" -> strategy.fixed_amount

\* DiscountStrategy.apply_discount, dispatched on the strategy's class.
apply_discount(strategy, amount) ==
    CASE strategy.kind = "NoDiscount" -> amount
      [] strategy.kind = "Percentage" -> (amount * strategy.percentage) \div 100
      [] strategy.kind = "Fixed" -> Min(amount, strategy.fixed_amount)

----------------------------------------------------------------------------
(* Delivery strategies                                                     *)

\* Customer.address of the one customer; no strategy reads it.
Address == "address"

NoStrategy == "None"
DeliveryStrategies == {"Pickup", "Courier", "Post"}

PickupCost == Money(0)
CourierCost == Money(400)
PostCost == Money(150)

\* TIME_DELTA of each strategy, in hours.
TimeDelta(strategy) ==
    CASE strategy = "Pickup" -> 4
      [] strategy = "Courier" -> 2 * 24
      [] strategy = "Post" -> 7 * 24

\* A courier priced by weight, as the comment that ends the file expects
\* (350.00 below 20 kg).
calculate_cost_by_weight(strategy, address, total_weight) ==
    CASE strategy = "Pickup" -> PickupCost
      [] strategy = "Courier" ->
            IF total_weight < 20 THEN Money(350) ELSE CourierCost
      [] strategy = "Post" -> PostCost

\* DeliveryStrategy.calculate_cost
calculate_cost(strategy, address, total_weight) ==
    CASE strategy = "Pickup" -> PickupCost
      [] strategy = "Courier" -> CourierCost
      [] strategy = "Post" -> PostCost

\* DeliveryInfo(cost, delivery_time, estimated_delivery_time)
DeliveryInfo(cost, delivery_time) ==
    [present |-> TRUE, cost |-> cost, delivery_time |-> delivery_time]

\* Order.delivery_info = None
NoDeliveryInfo == [present |-> FALSE, cost |-> 0, delivery_time |-> 0]

\* DeliveryStrategy.estimate_delivery_time: pickup quotes its COST, courier
\* and post quote a placeholder of 0.
estimate_delivery_time(strategy, address) ==
    CASE strategy = "Pickup" -> DeliveryInfo(PickupCost, TimeDelta(strategy))
      [] strategy = "Courier" -> DeliveryInfo(0, TimeDelta(strategy))
      [] strategy = "Post" -> DeliveryInfo(0, TimeDelta(strategy))

----------------------------------------------------------------------------
(* OrderItem and Order                                                     *)

\* OrderItem(product, quantity): final_price is captured from the product's
\* price at construction.
OrderItem(product, quantity) ==
    [product |-> product, quantity |-> quantity,
     final_price |-> prices[product] * quantity]

\* OrderItem.get_subtotal
get_subtotal(item) == item.final_price

\* Order(customer)
NewOrder ==
    [items |-> <<>>,
     total_amount |-> 0,
     status |-> PENDING,
     discount_strategy |-> NoDiscount,
     delivery_strategy |-> NoStrategy,
     applied_discount |-> 0,
     delivery_info |-> NoDeliveryInfo,
     subtotal_calculated |-> 0,
     delivery_cost |-> 0]

\* Order.set_discount_strategy
set_discount_strategy(o, strategy) == [o EXCEPT !.discount_strategy = strategy]

\* A set_delivery_strategy that prices the delivery as soon as it is chosen.
set_delivery_strategy_priced(o, strategy) ==
    [o EXCEPT !.delivery_strategy = strategy,
              !.delivery_cost = calculate_cost(strategy, Address, 0)]

\* Order.set_delivery_strategy
set_delivery_strategy(o, strategy) == [o EXCEPT !.delivery_strategy = strategy]

\* Order.add_item_from_cart
add_item_from_cart(o, product, quantity) ==
    [o EXCEPT !.items = Append(@, OrderItem(product, quantity))]

\* sum(item.get_subtotal() for item in items)
RECURSIVE SumSubtotals(_)
SumSubtotals(items) ==
    IF items = <<>> THEN 0
    ELSE get_subtotal(Head(items)) + SumSubtotals(Tail(items))

\* A subtotal recomputed from the products' current prices.
RECURSIVE SumLive(_)
SumLive(items) ==
    IF items = <<>> THEN 0
    ELSE prices[Head(items).product] * Head(items).quantity + SumLive(Tail(items))

calculate_subtotal_live(o) ==
    [order |-> [o EXCEPT !.subtotal_calculated = SumLive(o.items)],
     ret |-> SumLive(o.items)]

\* Order.calculate_subtotal: the order after the call, and the value returned.
calculate_subtotal(o) ==
    [order |-> [o EXCEPT !.subtotal_calculated = SumSubtotals(o.items)],
     ret |-> SumSubtotals(o.items)]

\* A calculate_total that adds the delivery cost to the subtotal and forgets
\* the discount.
calculate_total_undiscounted(o, total_weight) ==
    LET o1 == calculate_subtotal(o).order
        subtotal == calculate_subtotal(o).ret
        o2 == [o1 EXCEPT !.applied_discount = apply_discount(o1.discount_strategy, subtotal)]
    IN  IF o2.delivery_strategy = NoStrategy
        THEN [order |-> o2, raised |-> TRUE, ret |-> 0]
        ELSE LET cost == calculate_cost(o2.delivery_strategy, Address, total_weight)
                 info == estimate_delivery_time(o2.delivery_strategy, Address)
                 o3 == [o2 EXCEPT !.delivery_cost = cost,
                                  !.delivery_info = [info EXCEPT !.cost = cost],
                                  !.total_amount = subtotal + cost]
             IN  [order |-> o3, raised |-> FALSE, ret |-> o3.total_amount]

\* A calculate_total that treats a missing delivery strategy as free delivery.
calculate_total_unchecked(o, total_weight) ==
    LET o1 == calculate_subtotal(o).order
        subtotal == calculate_subtotal(o).ret
        o2 == [o1 EXCEPT !.applied_discount = apply_discount(o1.discount_strategy, subtotal)]
        amount_after_discount == subtotal - o2.applied_discount
        cost == IF o2.delivery_strategy = NoStrategy THEN 0
                ELSE calculate_cost(o2.delivery_strategy, Address, total_weight)
        info == IF o2.delivery_strategy = NoStrategy THEN DeliveryInfo(0, 0)
                ELSE estimate_delivery_time(o2.delivery_strategy, Address)
        o3 == [o2 EXCEPT !.delivery_cost = cost,
                         !.delivery_info = [info EXCEPT !.cost = cost],
                         !.total_amount = amount_after_discount + cost]
    IN  [order |-> o3, raised |-> FALSE, ret |-> o3.total_amount]

\* A calculate_total that keeps the quote as estimate_delivery_time made it.
calculate_total_raw_quote(o, total_weight) ==
    LET o1 == calculate_subtotal(o).order
        subtotal == calculate_subtotal(o).ret
        o2 == [o1 EXCEPT !.applied_discount = apply_discount(o1.discount_strategy, subtotal)]
        amount_after_discount == subtotal - o2.applied_discount
    IN  IF o2.delivery_strategy = NoStrategy
        THEN [order |-> o2, raised |-> TRUE, ret |-> 0]
        ELSE LET cost == calculate_cost(o2.delivery_strategy, Address, total_weight)
                 info == estimate_delivery_time(o2.delivery_strategy, Address)
                 o3 == [o2 EXCEPT !.delivery_cost = cost,
                                  !.delivery_info = info,
                                  !.total_amount = amount_after_discount + cost]
             IN  [order |-> o3, raised |-> FALSE, ret |-> o3.total_amount]

\* Order.calculate_total: the order after the call, whether it raised
\* ValueError (no delivery strategy), and the value returned.  The subtotal
\* and the applied discount are recorded before the strategy is looked at.
calculate_total(o, total_weight) ==
    LET o1 == calculate_subtotal(o).order
        subtotal == calculate_subtotal(o).ret
        o2 == [o1 EXCEPT !.applied_discount = apply_discount(o1.discount_strategy, subtotal)]
        amount_after_discount == subtotal - o2.applied_discount
    IN  IF o2.delivery_strategy = NoStrategy
        THEN [order |-> o2, raised |-> TRUE, ret |-> 0]
        ELSE LET cost == calculate_cost(o2.delivery_strategy, Address, total_weight)
                 info == estimate_delivery_time(o2.delivery_strategy, Address)
                 o3 == [o2 EXCEPT !.delivery_cost = cost,
                                  !.delivery_info = [info EXCEPT !.cost = cost],
                                  !.total_amount = amount_after_discount + cost]
             IN  [order |-> o3, raised |-> FALSE, ret |-> o3.total_amount]

----------------------------------------------------------------------------
(* ShoppingCart                                                            *)

\* The position of product in the dict, 0 when it is no key of it.
IndexOf(c, product) ==
    IF \E i \in 1..Len(c) : c[i].product = product
    THEN CHOOSE i \in 1..Len(c) : c[i].product = product
    ELSE 0

\* An add_item that always inserts a new entry.
add_item_unmerged(c, product, quantity) ==
    Append(c, [product |-> product, quantity |-> quantity])

\* ShoppingCart.add_item: a key that is present has its quantity increased
\* in place, a new key goes to the end of the dict.
add_item(c, product, quantity) ==
    IF IndexOf(c, product) # 0
    THEN [c EXCEPT ![IndexOf(c, product)].quantity = @ + quantity]
    ELSE Append(c, [product |-> product, quantity |-> quantity])

\* ShoppingCart.remove_item
remove_item(c, product) == SelectSeq(c, LAMBDA e : e.product # product)

\* ShoppingCart.get_items
get_items(c) == c

\* ShoppingCart.calculate_subtotal: from the products' current prices.
RECURSIVE cart_calculate_subtotal(_)
cart_calculate_subtotal(c) ==
    IF c = <<>> THEN 0
    ELSE prices[Head(c).product] * Head(c).quantity + cart_calculate_subtotal(Tail(c))

----------------------------------------------------------------------------
(* PaymentProcessor and OrderPlacementFacade                               *)

\* PaymentProcessor.process_payment: prints and accepts.
process_payment(amount, details) == TRUE

\* The payment gate the facade was constructed with: the repository's
\* PaymentProcessor, or a collaborator with the same interface that declines.
Gates == {"PaymentProcessor", "Declining"}

gate_process_payment(gate, amount, details) ==
    IF gate = "PaymentProcessor" THEN process_payment(amount, details) ELSE FALSE

\* delivery_details: a dict that may or may not hold the key 'weight'.
Details(has_weight, weight) == [has_weight |-> has_weight, weight |-> weight]

\* float(delivery_details.get('weight', 0))
total_weight_of(delivery_details) ==
    IF delivery_details.has_weight THEN delivery_details.weight ELSE 0

\* for product, quantity in cart.get_items().items(): order.add_item_from_cart(...)
RECURSIVE add_items_from_cart(_, _)
add_items_from_cart(o, entries) ==
    IF entries = <<>> THEN o
    ELSE add_items_from_cart(
             add_item_from_cart(o, Head(entries).product, Head(entries).quantity),
             Tail(entries))

\* A place_order that marks the order shipped once it is paid.
place_order_shipping(c, discount_strategy, delivery_strategy, delivery_details, gate) ==
    LET o1 == add_items_from_cart(NewOrder, get_items(c))
        o2 == set_delivery_strategy(set_discount_strategy(o1, discount_strategy),
                                    delivery_strategy)
        r == calculate_total(o2, total_weight_of(delivery_details))
    IN  IF r.raised
        THEN [order |-> r.order, raised |-> TRUE, ret |-> 0, accepted |-> FALSE]
        ELSE IF gate_process_payment(gate, r.ret, "payment_details")
             THEN [order |-> [r.order EXCEPT !.status = SHIPPED],
                   raised |-> FALSE, ret |-> r.ret, accepted |-> TRUE]
             ELSE [order |-> [r.order EXCEPT !.status = PENDING],
                   raised |-> FALSE, ret |-> r.ret, accepted |-> FALSE]

\* OrderPlacementFacade.place_order: the order built (returned unless
\* calculate_total raised, in which case the exception propagates and the
\* order stays as calculate_total left it), the amount submitted to the gate
\* and the gate's answer.
place_order(c, discount_strategy, delivery_strategy, delivery_details, gate) ==
    LET o1 == add_items_from_cart(NewOrder, get_items(c))
        o2 == set_delivery_strategy(set_discount_strategy(o1, discount_strategy),
                                    delivery_strategy)
        r == calculate_total(o2, total_weight_of(delivery_details))
    IN  IF r.raised
        THEN [order |-> r.order, raised |-> TRUE, ret |-> 0, accepted |-> FALSE]
        ELSE IF gate_process_payment(gate, r.ret, "payment_details")
             THEN [order |-> [r.order EXCEPT !.status = PAID],
                   raised |-> FALSE, ret |-> r.ret, accepted |-> TRUE]
             ELSE [order |-> [r.order EXCEPT !.status = PENDING],
                   raised |-> FALSE, ret |-> r.ret, accepted |-> FALSE]

----------------------------------------------------------------------------
(* Inputs                                                                  *)

\* Strategies the order operations are called with.
DiscountStrategies ==
    {NoDiscount, PercentageDiscountStrategy(10), FixedAmountDiscountStrategy(Money(100))}

\* Percentages and caps the strategy constructors are called with: inside
\* and outside the expected ranges (the constructors validate nothing).
Percentages == {-10, 0, 10, 50, 100, 150}
FixedAmounts == {-Money(100), 0, Money(40), Money(100), Money(5000)}

AllDiscountStrategies ==
    {NoDiscount}
    \cup {PercentageDiscountStrategy(p) : p \in Percentages}
    \cup {FixedAmountDiscountStrategy(f) : f \in FixedAmounts}

\* Subtotals apply_discount is called with directly.
Amounts == {0, Money(1), Money(40), Money(85), Money(100), Money(170),
           Money(1410), Money(10000)}

\* Weights, in kg.
Weights == {0, 16, 25}

DeliveryDetails == {Details(FALSE, 0)} \cup {Details(TRUE, w) : w \in Weights}

----------------------------------------------------------------------------
(* State                                                                   *)

Call(op, raised, ret, accepted, arg) ==
    [op |-> op, raised |-> raised, ret |-> ret, accepted |-> accepted, arg |-> arg]

RECURSIVE Units(_)
Units(entries) ==
    IF entries = <<>> THEN 0 ELSE Head(entries).quantity + Units(Tail(entries))

Init ==
    /\ prices = [p \in Products |-> CataloguePrice(p)]
    /\ cart = <<>>
    /\ order = NewOrder
    /\ last = Call("init", FALSE, 0, FALSE, 0)
    /\ total_called = FALSE

\* product.price = price, from outside the engine
SetPrice(product, price) ==
    /\ price # prices[product]
    /\ prices' = [prices EXCEPT ![product] = price]
    /\ last' = Call("set_price", FALSE, 0, FALSE, 0)
    /\ UNCHANGED <<cart, order, total_called>>

AddItemFromCart(product, quantity) ==
    /\ Units(order.items) + quantity <= MaxOrderUnits
    /\ order' = add_item_from_cart(order, product, quantity)
    /\ last' = Call("add_item_from_cart", FALSE, 0, FALSE, 0)
    /\ UNCHANGED <<prices, cart, total_called>>

SetDiscountStrategy(strategy) ==
    /\ order' = set_discount_strategy(order, strategy)
    /\ last' = Call("set_discount_strategy", FALSE, 0, FALSE, 0)
    /\ UNCHANGED <<prices, cart, total_called>>

SetDeliveryStrategy(strategy) ==
    /\ order' = set_delivery_strategy(order, strategy)
    /\ last' = Call("set_delivery_strategy", FALSE, 0, FALSE, 0)
    /\ UNCHANGED <<prices, cart, total_called>>

CalculateSubtotal ==
    /\ order' = calculate_subtotal(order).order
    /\ last' = Call("calculate_subtotal", FALSE, calculate_subtotal(order).ret, FALSE, 0)
    /\ UNCHANGED <<prices, cart, total_called>>

CalculateTotal(total_weight) ==
    LET r == calculate_total(order, total_weight)
    IN  /\ order' = r.order
        /\ last' = Call("calculate_total", r.raised, r.ret, FALSE, 0)
        /\ total_called' = TRUE
        /\ UNCHANGED <<prices, cart>>

\* order.discount_strategy.apply_discount(amount), called directly
ApplyDiscount(amount) ==
    /\ last' = Call("apply_discount", FALSE,
                    apply_discount(order.discount_strategy, amount), FALSE, amount)
    /\ UNCHANGED <<prices, cart, order, total_called>>

CartAddItem(product, quantity) ==
    /\ Units(cart) + quantity <= MaxCartUnits
    /\ cart' = add_item(cart, product, quantity)
    /\ last' = Call("add_item", FALSE, 0, FALSE, 0)
    /\ UNCHANGED <<prices, order, total_called>>

CartRemoveItem(product) ==
    /\ cart' = remove_item(cart, product)
    /\ last' = Call("remove_item", FALSE, 0, FALSE, 0)
    /\ UNCHANGED <<prices, order, total_called>>

CartCalculateSubtotal ==
    /\ last' = Call("cart_calculate_subtotal", FALSE, cart_calculate_subtotal(cart), FALSE, 0)
    /\ UNCHANGED <<prices, cart, order, total_called>>

PlaceOrder(discount_strategy, delivery_strategy, delivery_details, gate) ==
    LET r == place_order(cart, discount_strategy, delivery_strategy, delivery_details, gate)
    IN  /\ order' = r.order
        /\ last' = Call("place_order", r.raised, r.ret, r.accepted, 0)
        /\ total_called' = TRUE
        /\ UNCHANGED <<prices, cart>>

\* The Order aggregate.
Next ==
    \/ \E p \in Products, q \in Qtys : AddItemFromCart(p, q)
    \/ \E s \in DiscountStrategies : SetDiscountStrategy(s)
    \/ \E s \in DeliveryStrategies : SetDeliveryStrategy(s)
    \/ CalculateSubtotal
    \/ \E w \in Weights : CalculateTotal(w)

Spec == Init /\ [][Next]_vars

\* The Order aggregate with its products re-priced from outside.
NextPrice ==
    \/ \E p \in Products, q \in Qtys : AddItemFromCart(p, q)
    \/ SetDeliveryStrategy("Courier")
    \/ CalculateSubtotal
    \/ \E w \in Weights : CalculateTotal(w)
    \/ \E p \in Products : \E v \in PriceSet(p) : SetPrice(p, v)

SpecPrice == Init /\ [][NextPrice]_vars

\* The discount strategies as pure functions, and inside calculate_total.
InitDiscount ==
    /\ prices = [p \in Products |-> CataloguePrice(p)]
    /\ cart = <<>>
    /\ order \in {set_discount_strategy(NewOrder, s) : s \in AllDiscountStrategies}
    /\ last = Call("set_discount_strategy", FALSE, 0, FALSE, 0)
    /\ total_called = FALSE

NextDiscount ==
    \/ \E a \in Amounts : ApplyDiscount(a)
    \/ \E p \in Products, q \in Qtys : AddItemFromCart(p, q)
    \/ SetDeliveryStrategy("Post")
    \/ \E w \in Weights : CalculateTotal(w)

SpecDiscount == InitDiscount /\ [][NextDiscount]_vars

\* The cart and the order lines side by side.
NextLines ==
    \/ \E p \in Products, q \in Qtys : CartAddItem(p, q)
    \/ \E p \in Products : CartRemoveItem(p)
    \/ \E p \in Products, q \in Qtys : AddItemFromCart(p, q)

SpecLines == Init /\ [][NextLines]_vars

\* The placement workflow over a cart.  One placement per behaviour:
\* place_order builds a new Order from the cart and reads nothing of an
\* earlier one, so what follows a placement repeats what came before it.
NotPlaced == last.op # "place_order"

NextFacade ==
    \/ \E p \in Products, q \in Qtys : NotPlaced /\ CartAddItem(p, q)
    \/ \E p \in Products : NotPlaced /\ CartRemoveItem(p)
    \/ NotPlaced /\ CartCalculateSubtotal
    \/ \E ds \in DiscountStrategies, dl \in DeliveryStrategies \cup {NoStrategy},
          dd \in DeliveryDetails, g \in Gates : NotPlaced /\ PlaceOrder(ds, dl, dd, g)

SpecFacade == Init /\ [][NextFacade]_vars

----------------------------------------------------------------------------
(* Properties                                                              *)

Returned(op) == last.op = op /\ ~last.raised

\* C1.  After calculate_total returns, the recorded total is exactly
\* (subtotal - applied discount) + delivery cost, and it is the value returned.
C1_TotalIdentity ==
    Returned("calculate_total") =>
        /\ order.total_amount =
               (order.subtotal_calculated - order.applied_discount) + order.delivery_cost
        /\ last.ret = order.total_amount

C1_Witness ==
    /\ Returned("calculate_total")
    /\ Len(order.items) >= 2
    /\ order.applied_discount > 0
    /\ order.applied_discount < order.subtotal_calculated
    /\ order.delivery_cost > 0

\* C2.  With the NoDiscount strategy (the default of a new order) calculate_total
\* records an applied discount of 0 and a total of subtotal + delivery cost.
C2_NoDiscountIsZero ==
    (Returned("calculate_total") /\ order.discount_strategy = NoDiscount) =>
        /\ order.applied_discount = 0
        /\ order.total_amount = order.subtotal_calculated + order.delivery_cost

\* The strategies whose parameter is in the expected range: any NoDiscount,
\* a percentage within 0..100, a cap that is not negative.
InRange(strategy) ==
    \/ strategy.kind = "NoDiscount"
    \/ strategy.kind = "Percentage" /\ strategy.percentage \in 0..100
    \/ strategy.kind = "Fixed" /\ strategy.fixed_amount >= 0

\* C3 as stated.  Whatever percentage or cap a strategy was constructed with,
\* 0 <= apply_discount(s) <= s for every s >= 0, called directly and inside
\* calculate_total.
C3_DiscountWithinSubtotal ==
    /\ (last.op = "apply_discount" /\ last.arg >= 0) =>
           (0 <= last.ret /\ last.ret <= last.arg)
    /\ last.op = "calculate_total" =>
           /\ 0 <= order.applied_discount
           /\ order.applied_discount <= order.subtotal_calculated

\* C3 amended.  For NoDiscount, a percentage within 0..100 and a cap >= 0,
\* 0 <= apply_discount(s) <= s for every s >= 0, so that the post-discount
\* amount of calculate_total is not negative.
C3_DiscountWithinSubtotalInRange ==
    InRange(order.discount_strategy) =>
        /\ (last.op = "apply_discount" /\ last.arg >= 0) =>
               (0 <= last.ret /\ last.ret <= last.arg)
        /\ last.op = "calculate_total" =>
               /\ 0 <= order.applied_discount
               /\ order.applied_discount <= order.subtotal_calculated
               /\ order.subtotal_calculated - order.applied_discount >= 0

C3_Witness ==
    /\ last.op = "apply_discount"
    /\ order.discount_strategy.kind = "Fixed"
    /\ order.discount_strategy.fixed_amount > last.arg
    /\ last.arg > 0
    /\ last.ret = last.arg

\* C4.  calculate_total on an order without a delivery strategy raises and
\* returns no total, whatever lines and discount strategy the order has; the
\* recorded total, delivery cost and quote stay as the constructor left them.
C4_NoDeliveryStrategyRaises ==
    (last.op = "calculate_total" /\ order.delivery_strategy = NoStrategy) =>
        /\ last.raised
        /\ order.total_amount = 0
        /\ order.delivery_cost = 0
        /\ ~order.delivery_info.present

C4_Witness ==
    /\ last.op = "calculate_total"
    /\ last.raised
    /\ order.delivery_strategy = NoStrategy
    /\ Len(order.items) >= 2
    /\ order.discount_strategy.kind = "Fixed"

\* C5.  An order is Pending until place_order; place_order leaves it Pending
\* when the gate declines (or calculate_total raised) and Paid when the gate
\* accepts, and Paid only on an order whose total calculate_total has computed
\* and which was the amount submitted; Shipped and Delivered never occur.
C5_StatusAfterPlacement ==
    /\ order.status \in {PENDING, PAID}
    /\ last.op # "place_order" => order.status = PENDING
    /\ last.op = "place_order" =>
           /\ last.raised => order.status = PENDING
           /\ (~last.raised /\ ~last.accepted) => order.status = PENDING
           /\ (~last.raised /\ last.accepted) => order.status = PAID
           /\ order.status = PAID =>
                  /\ total_called
                  /\ order.delivery_info.present
                  /\ last.ret = order.total_amount
                  /\ order.total_amount =
                         (order.subtotal_calculated - order.applied_discount)
                             + order.delivery_cost

C5_Witness ==
    /\ last.op = "place_order"
    /\ last.accepted
    /\ order.status = PAID
    /\ Len(order.items) = Len(cart)
    /\ Len(cart) >= 2

\* C6.  After calculate_total returns, the quote's cost is what calculate_cost
\* returns for the order's strategy (at any weight) and the recorded delivery
\* cost, whatever cost estimate_delivery_time put in the quote.
C6_QuoteCostIsAuthoritative ==
    Returned("calculate_total") =>
        /\ order.delivery_info.present
        /\ order.delivery_info.cost = order.delivery_cost
        /\ \A w \in Weights :
               order.delivery_info.cost = calculate_cost(order.delivery_strategy, Address, w)
        /\ order.delivery_info.delivery_time = TimeDelta(order.delivery_strategy)

C6_Witness ==
    /\ Returned("calculate_total")
    /\ order.delivery_strategy = "Courier"
    /\ order.delivery_info.cost = CourierCost
    /\ estimate_delivery_time("Courier", Address).cost # CourierCost

\* The quantity the cart holds of a product, 0 when it holds none.
Held(c, product) == IF IndexOf(c, product) = 0 THEN 0 ELSE c[IndexOf(c, product)].quantity

\* C7.  From any order and cart: adding a product to the order with q1 and
\* then q2 appends two lines (q1, then q2) whose subtotal is that of one line
\* of q1 + q2, and adding it to the cart with q1 and then q2 leaves one entry
\* for the product, holding q1 + q2 more than before; the cart never holds two
\* entries for one product.
C7_OrderKeepsLinesCartMerges ==
    /\ \A i, j \in 1..Len(cart) : cart[i].product = cart[j].product => i = j
    /\ \A p \in Products, q1, q2 \in Qtys :
           LET n == Len(order.items)
               o2 == add_item_from_cart(add_item_from_cart(order, p, q1), p, q2)
               o1 == add_item_from_cart(order, p, q1 + q2)
               c2 == add_item(add_item(cart, p, q1), p, q2)
           IN  /\ Len(o2.items) = n + 2
               /\ SubSeq(o2.items, 1, n) = order.items
               /\ o2.items[n + 1].product = p /\ o2.items[n + 1].quantity = q1
               /\ o2.items[n + 2].product = p /\ o2.items[n + 2].quantity = q2
               /\ Len(o1.items) = n + 1
               /\ calculate_subtotal(o2).ret = calculate_subtotal(o1).ret
               /\ Cardinality({i \in 1..Len(c2) : c2[i].product = p}) = 1
               /\ Held(c2, p) = Held(cart, p) + q1 + q2
               /\ Len(c2) = Len(cart) + (IF Held(cart, p) = 0 THEN 1 ELSE 0)

C7_Witness ==
    /\ Len(order.items) = 2
    /\ order.items[1].product = order.items[2].product
    /\ calculate_subtotal(order).ret =
           prices[order.items[1].product]
               * (order.items[1].quantity + order.items[2].quantity)
    /\ Len(cart) = 1
    /\ cart[1].product = order.items[1].product
    /\ cart[1].quantity > MaxQty

\* The cart of the demo driver: milk x 2, bread x 1, heavy_item x 1, at the
\* catalogue prices.
DemoCart ==
    /\ prices = [p \in Products |-> CataloguePrice(p)]
    /\ Len(cart) = 3
    /\ {cart[i] : i \in 1..Len(cart)} =
           {[product |-> "milk", quantity |-> 2],
            [product |-> "bread", quantity |-> 1],
            [product |-> "heavy_item", quantity |-> 1]}

\* C8.  The demo cart has subtotal 1410.00, and place_order on it with
\* FixedAmountDiscountStrategy(100.00) and CourierDeliveryStrategy gives
\* subtotal 1410.00, discount 100.00, delivery 400.00 and total 1710.00, at
\* every weight.
C8_EndToEnd ==
    DemoCart =>
        /\ cart_calculate_subtotal(cart) = Money(1410)
        /\ last.op = "cart_calculate_subtotal" => last.ret = Money(1410)
        /\ ( /\ Returned("place_order")
             /\ order.discount_strategy = FixedAmountDiscountStrategy(Money(100))
             /\ order.delivery_strategy = "Courier" ) =>
               /\ order.subtotal_calculated = Money(1410)
               /\ order.applied_discount = Money(100)
               /\ order.delivery_cost = Money(400)
               /\ order.total_amount = Money(1710)
               /\ last.ret = Money(1710)

C8_Witness ==
    /\ DemoCart
    /\ Returned("place_order")
    /\ order.discount_strategy = FixedAmountDiscountStrategy(Money(100))
    /\ order.delivery_strategy = "Courier"
    /\ order.total_amount = Money(1710)
    /\ order.status = PAID

\* C9.  A line's total is price x quantity as the price was when the line was
\* added and never changes afterwards; every calculate_subtotal and
\* calculate_total records and returns what the sum of those line totals
\* gives, and a change of price changes neither the order nor the subtotal
\* that would be computed from it.
C9_Step ==
    /\ Len(order'.items) >= Len(order.items)
    /\ \A i \in 1..Len(order.items) : order'.items[i] = order.items[i]
    /\ last'.op = "add_item_from_cart" =>
           LET line == order'.items[Len(order'.items)]
           IN  line.final_price = prices[line.product] * line.quantity
    /\ last'.op = "calculate_subtotal" =>
           /\ order'.subtotal_calculated = SumSubtotals(order.items)
           /\ last'.ret = SumSubtotals(order.items)
    /\ last'.op = "calculate_total" =>
           /\ order'.subtotal_calculated = SumSubtotals(order.items)
           /\ ~last'.raised =>
                  last'.ret = (SumSubtotals(order.items) - order'.applied_discount)
                                  + order'.delivery_cost
    /\ prices' # prices =>
           /\ order' = order
           /\ calculate_subtotal(order)' = calculate_subtotal(order)

C9_LineTotalsSnapshotted == [][C9_Step]_vars

C9_Witness ==
    /\ Returned("calculate_total")
    /\ Len(order.items) >= 2
    /\ \E i \in 1..Len(order.items) :
           order.items[i].final_price
               # prices[order.items[i].product] * order.items[i].quantity
    /\ order.subtotal_calculated = SumSubtotals(order.items)

\* The sums calculate_subtotal can have recorded: of the lines there were
\* when it was called.
PrefixSums(items) == {SumSubtotals(SubSeq(items, 1, k)) : k \in 0..Len(items)}

\* C10 as stated.  Until calculate_total has been called, the recorded
\* subtotal, applied discount, delivery cost and total are all zero.
C10_DerivedZeroUntilTotal ==
    ~total_called =>
        /\ order.subtotal_calculated = 0
        /\ order.applied_discount = 0
        /\ order.delivery_cost = 0
        /\ order.total_amount = 0

\* C10 amended.  Until calculate_total has been called, the applied discount,
\* delivery cost and total are zero and there is no quote; the recorded
\* subtotal is zero or the sum calculate_subtotal recorded.
C10_DerivedZeroButSubtotal ==
    ~total_called =>
        /\ order.applied_discount = 0
        /\ order.delivery_cost = 0
        /\ order.total_amount = 0
        /\ ~order.delivery_info.present
        /\ order.subtotal_calculated \in PrefixSums(order.items)

C10_Witness ==
    /\ ~total_called
    /\ order.subtotal_calculated > 0
    /\ order.delivery_strategy = "Courier"
    /\ order.discount_strategy.kind = "Percentage"
    /\ order.applied_discount = 0
    /\ order.delivery_cost = 0

====
